---- MODULE Spec2Model ----
(***************************************************************************)
(* pymongo.json_util: the two hooks that carry MongoDB's extended values   *)
(* through Python's json module.  `default` turns a value json cannot      *)
(* serialise into a tagged mapping, `object_hook` turns a freshly parsed   *)
(* mapping back into an extended value.                                    *)
(*                                                                         *)
(* Python values are records with a field `kind`.  Strings are sequences   *)
(* of one-character strings, mappings are functions from key to value.     *)
(* An exception that leaves a hook is the record the hook "returns", with  *)
(* the exception's type as its kind.                                       *)
(***************************************************************************)
EXTENDS Integers, Sequences, FiniteSets, TLC

VARIABLES
    pc,         \* which hook has been called
    value,      \* the argument of default
    encoded,    \* what default returned
    mapping,    \* the argument of object_hook
    decoded,    \* what object_hook returned
    phase,      \* where json.dumps / json.loads stand with a document
    doc,        \* the document handed to json.dumps
    work,       \* the tree as the serializer, then the parser, has rebuilt it
    todo        \* the object nodes the parser has still to complete, in order

hookVars == <<pc, value, encoded, mapping, decoded>>
treeVars == <<phase, doc, work, todo>>
vars == <<pc, value, encoded, mapping, decoded, phase, doc, work, todo>>

-----------------------------------------------------------------------------
(* Python values *)

\* Epoch milliseconds do not fit TLC's 32-bit integers: the integer n is held
\* as n = hi * MsPerDay + lo with 0 <= lo < MsPerDay.
SecPerDay == 24 * 60 * 60
MsPerDay == SecPerDay * 1000

None == [kind |-> "None"]
PyInt(n) == [kind |-> "int", hi |-> n \div MsPerDay, lo |-> n % MsPerDay]
PyLong(h, l) == [kind |-> "int", hi |-> h + (l \div MsPerDay), lo |-> l % MsPerDay]
Str(s) == [kind |-> "str", chars |-> s]
Tuple(es) == [kind |-> "tuple", elems |-> es]
List(es) == [kind |-> "list", elems |-> es]
Dict(f) == [kind |-> "dict", items |-> f]
Binary(s) == [kind |-> "Binary", data |-> s]
Code(s) == [kind |-> "Code", code |-> s]

\* the exceptions
KeyError(k) == [kind |-> "KeyError", key |-> k]
InvalidId(s) == [kind |-> "InvalidId", oid |-> s]
\* shown: the values whose repr() the message carries
TypeError(m, shown) == [kind |-> "TypeError", msg |-> m, shown |-> shown]
ValueError(m) == [kind |-> "ValueError", msg |-> m]

IsError(v) == v.kind \in {"KeyError", "InvalidId", "TypeError", "ValueError"}

\* isinstance(v, basestring): Binary and Code subclass str
IsString(v) == v.kind \in {"str", "Binary", "Code"}

\* x in container, for the containers the hooks are handed
Contains(c, v) ==
    CASE v.kind = "str" -> \E j \in 1..Len(v.chars) : v.chars[j] = c
      [] v.kind \in {"list", "tuple"} -> \E j \in 1..Len(v.elems) : v.elems[j] = Str(<<c>>)
      [] v.kind = "dict" -> c \in DOMAIN v.items

Iterable(v) == v.kind \in {"str", "list", "tuple", "dict"}

\* a & b and a | b on non-negative integers
RECURSIVE BitAnd(_, _)
BitAnd(a, b) ==
    IF a = 0 \/ b = 0 THEN 0
    ELSE (a % 2) * (b % 2) + 2 * BitAnd(a \div 2, b \div 2)

RECURSIVE BitOr(_, _)
BitOr(a, b) ==
    IF a = 0 THEN b
    ELSE IF b = 0 THEN a
    ELSE (IF a % 2 = 1 \/ b % 2 = 1 THEN 1 ELSE 0) + 2 * BitOr(a \div 2, b \div 2)

-----------------------------------------------------------------------------
(* pymongo.objectid.ObjectId: twelve bytes, str() is their hex form *)

OidLen == 12

HexDigits == <<"0", "1", "2", "3", "4", "5", "6", "7",
               "8", "9", "a", "b", "c", "d", "e", "f">>
UpperHex == <<"0", "1", "2", "3", "4", "5", "6", "7",
              "8", "9", "A", "B", "C", "D", "E", "F">>

IsHexChar(c) == \E j \in 1..16 : HexDigits[j] = c \/ UpperHex[j] = c
HexValue(c) == (CHOOSE j \in 1..16 : HexDigits[j] = c \/ UpperHex[j] = c) - 1

\* binary.encode("hex")
HexEncode(bytes) ==
    [j \in 1..(2 * Len(bytes)) |->
        IF j % 2 = 1 THEN HexDigits[(bytes[(j + 1) \div 2] \div 16) + 1]
        ELSE HexDigits[(bytes[j \div 2] % 16) + 1]]

\* s.decode("hex"), for s of even length made of hex digits
HexDecode(s) ==
    [j \in 1..(Len(s) \div 2) |-> 16 * HexValue(s[2 * j - 1]) + HexValue(s[2 * j])]

ObjectId(bytes) == [kind |-> "ObjectId", binary |-> bytes]

\* ObjectId(oid) for a string oid
NewObjectId(s) ==
    IF Len(s.chars) = 2 * OidLen /\ \A j \in 1..Len(s.chars) : IsHexChar(s.chars[j])
    THEN ObjectId(HexDecode(s.chars))
    ELSE InvalidId(s)

\* str(oid)
ObjectIdStr(o) == Str(HexEncode(o.binary))

-----------------------------------------------------------------------------
(* pymongo.dbref.DBRef *)

DBRef(c, i, d) == [kind |-> "DBRef", collection |-> c, id |-> i, database |-> d]

\* DBRef(collection, id, database)
NewDBRef(c, i, d) ==
    IF ~IsString(c) THEN TypeError("collection must be an instance of basestring", <<>>)
    ELSE IF d # None /\ ~IsString(d)
    THEN TypeError("database must be an instance of basestring", <<>>)
    ELSE DBRef(c, i, d)

\* ref.as_doc()
AsDoc(r) ==
    IF r.database = None
    THEN Dict(("$ref" :> r.collection) @@ ("$id" :> r.id))
    ELSE Dict(("$ref" :> r.collection) @@ ("$id" :> r.id) @@ ("$db" :> r.database))

-----------------------------------------------------------------------------
(* the other extended values *)

MinKey == [kind |-> "MinKey"]
MaxKey == [kind |-> "MaxKey"]
Timestamp(t, i) == [kind |-> "Timestamp", time |-> t, inc |-> i]

\* re's flag bits
IGNORECASE == 2
MULTILINE == 8

Pattern(p, f) == [kind |-> "SRE_Pattern", pattern |-> p, flags |-> f]

\* re.compile(pattern, flags), for a pattern that is no string or a string of
\* valid syntax without inline flags
ReCompile(p, f) ==
    IF p.kind = "str" THEN Pattern(p, f)
    ELSE TypeError("first argument must be string or compiled pattern", <<>>)

-----------------------------------------------------------------------------
(* datetime.datetime *)

\* The date of a datetime is held as its day number, date.toordinal() less
\* the ordinal of 1970-01-01.  A count of seconds is held the way integers
\* are, as days * SecPerDay + secs with 0 <= secs < SecPerDay.
EpochOrdinal == 719163
MinOrdinal == 1
MaxOrdinal == 3652059

Naive == [aware |-> FALSE, minutes |-> 0]
FixedOffset(m) == [aware |-> TRUE, minutes |-> m]
utc == FixedOffset(0)

Datetime(d, h, mi, sec, us, tz) ==
    [kind |-> "datetime", days |-> d, hour |-> h, minute |-> mi, second |-> sec,
     microsecond |-> us, tzinfo |-> tz]

\* dt - dt.utcoffset(): the wall clock moved back by the offset, tzinfo kept
SubUtcoffset(dt) ==
    LET t == dt.hour * 60 + dt.minute - dt.tzinfo.minutes
    IN  Datetime(dt.days + (t \div (24 * 60)), (t % (24 * 60)) \div 60, t % 60,
                 dt.second, dt.microsecond, dt.tzinfo)

\* calendar.timegm(dt.timetuple()): whole seconds since the epoch of the wall
\* clock fields read as UTC
Timegm(dt) == [days |-> dt.days, secs |-> (dt.hour * 60 + dt.minute) * 60 + dt.second]

\* Millis with / the division of Python 3: the sum is a float, and int() rounds
\* it toward zero
MillisTruncated(t, microsecond) ==
    PyLong(t.days, t.secs * 1000 + microsecond \div 1000
                    + (IF t.days < 0 /\ microsecond % 1000 # 0 THEN 1 ELSE 0))

\* int(secs * 1000 + microsecond / 1000), with / Python 2's division of integers
Millis(t, microsecond) == PyLong(t.days, t.secs * 1000 + microsecond \div 1000)

\* |n| for an integer n
Magnitude(n) ==
    IF n.hi >= 0 THEN [hi |-> n.hi, lo |-> n.lo]
    ELSE IF n.lo = 0 THEN [hi |-> -n.hi, lo |-> 0]
    ELSE [hi |-> -n.hi - 1, lo |-> MsPerDay - n.lo]

\* floor(log2(days * SecPerDay + secs)), for a count of at least one second;
\* (pd, ps) is 2^k as a count of seconds
RECURSIVE Log2From(_, _, _, _, _)
Log2From(days, secs, k, pd, ps) ==
    LET nd == 2 * pd + ((2 * ps) \div SecPerDay)
        ns == (2 * ps) % SecPerDay
    IN  IF days > nd \/ (days = nd /\ secs >= ns)
        THEN Log2From(days, secs, k + 1, nd, ns)
        ELSE k

\* the least j with r * 2^j >= 1000, for 0 < r < 1000:  -floor(log2(r / 1000))
RECURSIVE Log2Below(_, _)
Log2Below(r, j) == IF r >= 1000 THEN j ELSE Log2Below(2 * r, j + 1)

\* 2^q mod m
RECURSIVE Pow2Mod(_, _)
Pow2Mod(q, m) == IF q = 0 THEN 1 % m ELSE (2 * Pow2Mod(q - 1, m)) % m

RECURSIVE Pow2(_)
Pow2(q) == IF q = 0 THEN 1 ELSE 2 * Pow2(q - 1)

\* binary64 has 53 significant bits
MantissaBits == 53

\* float(n) / 1000.0 for an integer n of milliseconds.  float(n) is exact
\* (|n| < 2^53) and the quotient is the binary64 nearest to n / 1000.  With
\* |n| = 1000 * S + r, the quotient has q = 52 - floor(log2 |n / 1000|) bits
\* after the binary point, so it is S + N / 2^q where N is r * 2^q / 1000
\* rounded to the nearest integer, ties to even.  It is held as S, r, q and
\* the rounding error e = r * 2^q - 1000 * N, computed modulo 2000:
\*     |x| = days * SecPerDay + secs + r / 1000 - e / (1000 * 2^q)
TrueDiv1000(n) ==
    LET a == Magnitude(n)
        S == [days |-> a.hi, secs |-> a.lo \div 1000]
        r == a.lo % 1000
        q == IF S.days > 0 \/ S.secs > 0
             THEN MantissaBits - 1 - Log2From(S.days, S.secs, 0, 0, 1)
             ELSE IF r > 0 THEN MantissaBits - 1 + Log2Below(r, 0)
             ELSE MantissaBits - 1
        c == (r * Pow2Mod(q, 2000)) % 2000
        e == IF c % 1000 < 500 THEN c % 1000
             ELSE IF c % 1000 > 500 THEN (c % 1000) - 1000
             ELSE IF c = 500 THEN 500 ELSE -500
    IN  [kind |-> "float", neg |-> n.hi < 0, days |-> S.days, secs |-> S.secs,
         r |-> r, q |-> q, e |-> e]

\* round(a / 2^q) for |a| <= 500000, halves away from zero; from q = 21 on
\* |a| / 2^q is below one half
RoundShift(a, q) ==
    IF q >= 21 THEN 0
    ELSE IF a >= 0 THEN (2 * a + Pow2(q)) \div (2 * Pow2(q))
    ELSE -((2 * (-a) + Pow2(q)) \div (2 * Pow2(q)))

\* datetime.datetime.fromtimestamp(x, tz) for a tz of offset zero:
\*     timet = (time_t) x;  fraction = x - timet;  us = round(fraction * 1e6);
\*     if (us < 0) { timet -= 1; us += 1000000; }
\*     if (us == 1000000) { timet += 1; us = 0; }
\* then gmtime(timet) gives the fields.  fraction * 1e6 is
\* r * 1000 - 1000 * e / 2^q up to the sign.
Fromtimestamp(x, tz) ==
    LET sign == IF x.neg THEN -1 ELSE 1
        us0 == sign * (x.r * 1000 + RoundShift(-1000 * x.e, x.q))
        t0 == sign * x.secs
        borrow == IF us0 < 0 THEN 1 ELSE 0
        us1 == us0 + borrow * 1000000
        carry == IF us1 = 1000000 THEN 1 ELSE 0
        us == us1 - carry * 1000000
        t == t0 - borrow + carry
        days == sign * x.days + (t \div SecPerDay)
        sod == t % SecPerDay
    IN  IF days + EpochOrdinal < MinOrdinal \/ days + EpochOrdinal > MaxOrdinal
        THEN ValueError("year is out of range")
        ELSE Datetime(days, sod \div 3600, (sod % 3600) \div 60, sod % 60, us, tz)


-----------------------------------------------------------------------------
(* builtins the hooks call *)

DecDigits == <<"0", "1", "2", "3", "4", "5", "6", "7", "8", "9">>

RECURSIVE Decimal(_)
Decimal(n) == IF n < 10 THEN <<DecDigits[n + 1]>>
              ELSE Append(Decimal(n \div 10), DecDigits[(n % 10) + 1])

\* str(v), for a string, None or an integer in 0..MsPerDay-1
PyStr(v) ==
    CASE v.kind = "str" -> v
      [] v.kind = "None" -> Str(<<"N", "o", "n", "e">>)
      [] v.kind = "int" /\ v.hi = 0 -> Str(Decimal(v.lo))

\* float(v), for an integer or a value that is neither a number nor a string
PyFloat(v) ==
    CASE v.kind = "int" -> v
      [] v.kind \in {"None", "dict", "list"} ->
            TypeError("float() argument must be a string or a number", <<>>)

\* c in v, for a v that is no container
NotIterable(v) == TypeError("argument of type is not iterable", <<>>)

\* "%r is not JSON serializable" % obj: a tuple on the right of % is the
\* argument list, any other value the one argument
NotSerializable(obj) ==
    IF obj.kind = "tuple"
    THEN IF Len(obj.elems) = 1
         THEN TypeError("is not JSON serializable", <<obj.elems[1]>>)
         ELSE IF Len(obj.elems) = 0
         THEN TypeError("not enough arguments for format string", <<>>)
         ELSE TypeError("not all arguments converted during string formatting", <<>>)
    ELSE TypeError("is not JSON serializable", <<obj>>)

-----------------------------------------------------------------------------
(* json_util.object_hook *)

\* Checks with $ref tested before $oid
ChecksRefFirst == <<"$ref", "$oid", "$date", "$regex", "$minKey", "$maxKey">>

\* the keys object_hook tests, in the order of its if statements
Checks == <<"$oid", "$ref", "$date", "$regex", "$minKey", "$maxKey">>

\* the key of the first test that succeeds, "" when none does
RECURSIVE FirstMatch(_, _)
FirstMatch(m, j) ==
    IF j > Len(Checks) THEN ""
    ELSE IF Checks[j] \in DOMAIN m THEN Checks[j]
    ELSE FirstMatch(m, j + 1)

\* return ObjectId(str(dct["$oid"]))
DecodeOid(m) == NewObjectId(PyStr(m["$oid"]))

\* DecodeRef reading $id the way it reads $db, with dct.get
DecodeRefGet(m) ==
    NewDBRef(m["$ref"], IF "$id" \in DOMAIN m THEN m["$id"] ELSE None,
             IF "$db" \in DOMAIN m THEN m["$db"] ELSE None)

\* DecodeRef decoding a $id that is an $oid mapping
DecodeRefNested(m) ==
    IF "$id" \notin DOMAIN m THEN KeyError("$id")
    ELSE NewDBRef(m["$ref"],
                  IF m["$id"].kind = "dict" /\ "$oid" \in DOMAIN m["$id"].items
                  THEN DecodeOid(m["$id"].items) ELSE m["$id"],
                  IF "$db" \in DOMAIN m THEN m["$db"] ELSE None)

\* return DBRef(dct["$ref"], dct["$id"], dct.get("$db", None))
DecodeRef(m) ==
    IF "$id" \notin DOMAIN m THEN KeyError("$id")
    ELSE NewDBRef(m["$ref"], m["$id"], IF "$db" \in DOMAIN m THEN m["$db"] ELSE None)

\* return datetime.datetime.fromtimestamp(float(dct["$date"]) / 1000.0, utc)
DecodeDate(m) ==
    LET f == PyFloat(m["$date"])
    IN  IF IsError(f) THEN f ELSE Fromtimestamp(TrueDiv1000(f), utc)

\* the $regex branch
DecodeRegex(m) ==
    IF "$options" \notin DOMAIN m THEN KeyError("$options")
    ELSE IF ~Iterable(m["$options"]) THEN NotIterable(m["$options"])
    ELSE LET f1 == IF Contains("i", m["$options"]) THEN BitOr(0, IGNORECASE) ELSE 0
             f2 == IF Contains("m", m["$options"]) THEN BitOr(f1, MULTILINE) ELSE f1
         IN  ReCompile(m["$regex"], f2)

\* PassThrough without its return statement
ReturnNothing(dct) == None

\* return dct
PassThrough(dct) == dct

object_hook(dct) ==
    LET k == FirstMatch(dct.items, 1)
    IN  IF k = "$oid" THEN DecodeOid(dct.items)
        ELSE IF k = "$ref" THEN DecodeRef(dct.items)
        ELSE IF k = "$date" THEN DecodeDate(dct.items)
        ELSE IF k = "$regex" THEN DecodeRegex(dct.items)
        ELSE IF k = "$minKey" THEN MinKey
        ELSE IF k = "$maxKey" THEN MaxKey
        ELSE PassThrough(dct)

-----------------------------------------------------------------------------
(* json_util.default *)

\* the datetime branch
EncodeDate(obj) ==
    LET u == IF obj.tzinfo.aware THEN SubUtcoffset(obj) ELSE obj
        millis == Millis(Timegm(u), u.microsecond)
    IN  Dict("$date" :> millis)

\* EncodeFlags writing "s" for re.DOTALL as well
EncodeFlagsDotall(flags) ==
    LET f1 == IF BitAnd(flags, IGNORECASE) # 0 THEN <<"i">> ELSE <<>>
        f2 == IF BitAnd(flags, MULTILINE) # 0 THEN Append(f1, "m") ELSE f1
        f3 == IF BitAnd(flags, 16) # 0 THEN Append(f2, "s") ELSE f2
    IN  Str(f3)

\* the flags string of the pattern branch
EncodeFlags(flags) ==
    LET f1 == IF BitAnd(flags, IGNORECASE) # 0 THEN <<"i">> ELSE <<>>
        f2 == IF BitAnd(flags, MULTILINE) # 0 THEN Append(f1, "m") ELSE f1
    IN  Str(f2)

\* EncodeTimestamp with the two fields swapped
EncodeTimestampSwapped(obj) == Dict(("t" :> obj.inc) @@ ("i" :> obj.time))

\* return {"t": obj.time, "i": obj.inc}
EncodeTimestamp(obj) == Dict(("t" :> obj.time) @@ ("i" :> obj.inc))

default(obj) ==
    IF obj.kind = "ObjectId" THEN Dict("$oid" :> ObjectIdStr(obj))
    ELSE IF obj.kind = "DBRef" THEN AsDoc(obj)
    ELSE IF obj.kind = "datetime" THEN EncodeDate(obj)
    ELSE IF obj.kind = "SRE_Pattern"
    THEN Dict(("$regex" :> obj.pattern) @@ ("$options" :> EncodeFlags(obj.flags)))
    ELSE IF obj.kind = "MinKey" THEN Dict("$minKey" :> PyInt(1))
    ELSE IF obj.kind = "MaxKey" THEN Dict("$maxKey" :> PyInt(1))
    ELSE IF obj.kind = "Timestamp" THEN EncodeTimestamp(obj)
    ELSE NotSerializable(obj)

-----------------------------------------------------------------------------
(* the values the hooks are called with *)

\* bounds of the model
FlagBits == 6
TsMax == 2
OffsetSteps == 2
MaxKeys == 3

ByteVals == {0, 10, 171, 255}
Oids == {ObjectId([j \in 1..OidLen |-> b]) : b \in ByteVals}
            \cup {ObjectId([j \in 1..OidLen |-> (37 * j) % 256])}

Names == {Str(<<"c">>), Str(<<"d", "b">>)}
Regexes == {Str(<<"a", "*", "b">>), Str(<<"^", "x">>), Str(<<>>)}

PlainDict == Dict(("a" :> PyInt(1)) @@ ("$id" :> PyInt(2)))

DBRefs == {DBRef(c, i, d) : c \in Names,
                            i \in Oids \cup {PyInt(7), Str(<<"k">>), PlainDict},
                            d \in {None, Str(<<"d", "b">>)}}

\* 1969-12-31, 1970-01-01, 2010-01-01 and 2243-04-03 as day numbers
DayNumbers == {-1, 0, 14610, 99803}
Hours == {0, 20, 23}
Minutes == {0, 23, 59}
Seconds == {0, 37, 59}
Microseconds == {0, 500, 1000, 367000, 999000, 999999}
\* utcoffset() is a whole number of minutes
Offsets == {150 * k : k \in (-OffsetSteps)..OffsetSteps}
Tzinfos == {Naive} \cup {FixedOffset(m) : m \in Offsets}

Datetimes == {Datetime(d, h, mi, sec, us, tz) :
                d \in DayNumbers, h \in Hours, mi \in Minutes, sec \in Seconds,
                us \in Microseconds, tz \in Tzinfos}

Patterns == {Pattern(p, f) : p \in Regexes, f \in 0..(Pow2(FlagBits) - 1)}

Timestamps == {Timestamp(PyInt(t), PyInt(i)) : t \in 0..TsMax, i \in 0..TsMax}

Unsupported ==
    {None, PyInt(5), Str(<<"s">>), Binary(<<"s">>), Code(<<"s">>), PlainDict, Dict(<<>>),
     List(<<PyInt(1)>>), Tuple(<<>>), Tuple(<<PyInt(1)>>), Tuple(<<PyInt(1), PyInt(2)>>)}

Values == Oids \cup DBRefs \cup Datetimes \cup Patterns \cup {MinKey, MaxKey}
            \cup Timestamps \cup Unsupported

HexOfSome == ObjectIdStr(ObjectId([j \in 1..OidLen |-> 171]))

Keys == {"$oid", "$ref", "$id", "$db", "$date", "$regex", "$options",
         "$minKey", "$maxKey", "t", "i", "a"}

\* the values a mapping may hold under a key
Pool(k) ==
    CASE k = "$oid" -> {HexOfSome, Str(<<"z", "z">>), PyInt(7)}
      [] k = "$ref" -> {Str(<<"c">>), PyInt(7)}
      [] k = "$id" -> {PyInt(7), Dict("$oid" :> HexOfSome),
                       ObjectId([j \in 1..OidLen |-> 171])}
      [] k = "$db" -> {Str(<<"d", "b">>), PyInt(7)}
      [] k = "$date" -> {PyInt(0), PyInt(-1), PyLong(14610, 0),
                         PyLong(99803, 73417367), None}
      [] k = "$regex" -> {Str(<<"a", "*", "b">>), None}
      [] k = "$options" -> {Str(<<>>), Str(<<"i">>), Str(<<"m", "i">>),
                            Str(<<"x">>), None}
      [] k = "$minKey" -> {PyInt(1), None}
      [] k = "$maxKey" -> {PyInt(1), Str(<<"x">>)}
      [] k = "t" -> {PyInt(0), PyInt(1)}
      [] k = "i" -> {PyInt(0), PyInt(1)}
      [] k = "a" -> {Str(<<"s">>), Dict(<<>>)}

RECURSIVE MapsOver(_)
MapsOver(S) ==
    IF S = {} THEN {<<>>}
    ELSE LET k == CHOOSE k \in S : TRUE
         IN  {(k :> v) @@ f : v \in Pool(k), f \in MapsOver(S \ {k})}

Mappings == {Dict(f) : f \in UNION {MapsOver(S) :
                                     S \in {T \in SUBSET Keys : Cardinality(T) <= MaxKeys}}}

-----------------------------------------------------------------------------
(* calls of the hooks *)

Init ==
    /\ pc = "idle"
    /\ value = None
    /\ encoded = None
    /\ mapping = None
    /\ decoded = None
    /\ phase = "idle"
    /\ doc = None
    /\ work = None
    /\ todo = <<>>

\* default(v)
Encode ==
    /\ pc = "idle"
    /\ \E v \in Values :
        /\ value' = v
        /\ encoded' = default(v)
    /\ pc' = "encoded"
    /\ UNCHANGED <<mapping, decoded>>
    /\ UNCHANGED treeVars

\* object_hook on what default returned
DecodeEncoded ==
    /\ pc = "encoded"
    /\ encoded.kind = "dict"
    /\ mapping' = encoded
    /\ decoded' = object_hook(encoded)
    /\ pc' = "roundtrip"
    /\ UNCHANGED <<value, encoded>>
    /\ UNCHANGED treeVars

\* object_hook(m)
Decode ==
    /\ pc = "idle"
    /\ \E m \in Mappings :
        /\ mapping' = m
        /\ decoded' = object_hook(m)
    /\ pc' = "decoded"
    /\ UNCHANGED <<value, encoded>>
    /\ UNCHANGED treeVars

Next == Encode \/ DecodeEncoded \/ Decode

Spec == Init /\ [][Next]_vars

-----------------------------------------------------------------------------
(* json.dumps(doc, default=default), json.loads(text, object_hook=object_hook) *)

\* bound of the model
TreeDepth == 2

\* what json serialises by itself
IsBase(v) == v.kind \in {"None", "int", "str", "list", "dict"}

Key(k) == [key |-> k]
Index(j) == [index |-> j]

\* a set as a sequence
RECURSIVE SeqOf(_)
SeqOf(S) == IF S = {} THEN <<>>
            ELSE LET x == CHOOSE x \in S : TRUE IN <<x>> \o SeqOf(S \ {x})

\* the steps from a node to its children
Steps(t) ==
    IF t.kind = "dict" THEN SeqOf({Key(k) : k \in DOMAIN t.items})
    ELSE IF t.kind = "list" THEN [j \in 1..Len(t.elems) |-> Index(j)]
    ELSE <<>>

Child(t, step) == IF t.kind = "dict" THEN t.items[step.key] ELSE t.elems[step.index]

RECURSIVE SubAt(_, _)
SubAt(t, path) == IF path = <<>> THEN t ELSE SubAt(Child(t, Head(path)), Tail(path))

RECURSIVE ReplaceAt(_, _, _)
ReplaceAt(t, path, v) ==
    IF path = <<>> THEN v
    ELSE LET new == ReplaceAt(Child(t, Head(path)), Tail(path), v)
         IN  IF t.kind = "dict" THEN Dict([t.items EXCEPT ![Head(path).key] = new])
             ELSE List([t.elems EXCEPT ![Head(path).index] = new])

RECURSIVE Concat(_)
Concat(ss) == IF ss = <<>> THEN <<>> ELSE Head(ss) \o Concat(Tail(ss))

\* the values json.dumps cannot serialise, in the order it meets them
RECURSIVE Extended(_, _)
Extended(t, path) ==
    IF ~IsBase(t) THEN <<path>>
    ELSE Concat([j \in 1..Len(Steps(t)) |->
                    Extended(Child(t, Steps(t)[j]), Append(path, Steps(t)[j]))])

\* the object nodes in the order json.loads completes them: an object is
\* complete, and handed to object_hook, once everything inside it is
RECURSIVE Objects(_, _)
Objects(t, path) ==
    Concat([j \in 1..Len(Steps(t)) |->
                Objects(Child(t, Steps(t)[j]), Append(path, Steps(t)[j]))])
        \o (IF t.kind = "dict" THEN <<path>> ELSE <<>>)

TreeLeaves ==
    {PyInt(1), Str(<<"s">>), None, MinKey, MaxKey,
     ObjectId([j \in 1..OidLen |-> 171]),
     DBRef(Str(<<"c">>), ObjectId([j \in 1..OidLen |-> 10]), None),
     DBRef(Str(<<"c">>), ObjectId([j \in 1..OidLen |-> 10]), Str(<<"d", "b">>)),
     DBRef(Str(<<"c">>), PyInt(7), None),
     Datetime(14610, 0, 0, 0, 0, utc),
     Datetime(-1, 23, 59, 59, 999000, utc),
     Datetime(99803, 20, 23, 37, 367000, utc),
     Pattern(Str(<<"a", "*", "b">>), 0),
     Pattern(Str(<<"a", "*", "b">>), IGNORECASE + MULTILINE)}

SideLeaves == {PyInt(1), MinKey, DBRef(Str(<<"c">>), ObjectId([j \in 1..OidLen |-> 10]), None)}

RECURSIVE Trees(_)
Trees(n) ==
    IF n = 0 THEN TreeLeaves
    ELSE LET T == Trees(n - 1)
         IN  T \cup {Dict("a" :> t) : t \in T}
               \cup {List(<<t>>) : t \in T}
               \cup {Dict(("a" :> t) @@ ("$id" :> l)) : t \in T, l \in SideLeaves}
               \cup {List(<<l, t>>) : t \in T, l \in SideLeaves}

\* json.dumps(t, default=default) begins
Dumps ==
    /\ phase = "idle"
    /\ \E t \in Trees(TreeDepth) :
        /\ doc' = t
        /\ work' = t
    /\ phase' = "dumping"
    /\ UNCHANGED todo
    /\ UNCHANGED hookVars

\* the serializer meets a value it cannot serialise, calls default and goes on
\* with the mapping it got
DumpDefault ==
    /\ phase = "dumping"
    /\ Extended(work, <<>>) # <<>>
    /\ LET path == Head(Extended(work, <<>>))
       IN  work' = ReplaceAt(work, path, default(SubAt(work, path)))
    /\ UNCHANGED <<phase, doc, todo>>
    /\ UNCHANGED hookVars

\* the text is written; json.loads(text, object_hook=object_hook) begins
Loads ==
    /\ phase = "dumping"
    /\ Extended(work, <<>>) = <<>>
    /\ phase' = "loading"
    /\ todo' = Objects(work, <<>>)
    /\ UNCHANGED <<doc, work>>
    /\ UNCHANGED hookVars

\* the parser completes an object and puts what object_hook returns in its place
LoadObject ==
    /\ phase = "loading"
    /\ todo # <<>>
    /\ work' = ReplaceAt(work, Head(todo), object_hook(SubAt(work, Head(todo))))
    /\ todo' = Tail(todo)
    /\ UNCHANGED <<phase, doc>>
    /\ UNCHANGED hookVars

\* json.loads returns
LoadsDone ==
    /\ phase = "loading"
    /\ todo = <<>>
    /\ phase' = "done"
    /\ UNCHANGED <<doc, work, todo>>
    /\ UNCHANGED hookVars

TreeNext == Dumps \/ DumpDefault \/ Loads \/ LoadObject \/ LoadsDone

TreeSpec == Init /\ [][TreeNext]_vars

-----------------------------------------------------------------------------
(* what the documentation says of the hooks *)

SentinelKeys == {"$oid", "$ref", "$date", "$regex", "$minKey", "$maxKey"}

NoSentinel(m) == DOMAIN m \cap SentinelKeys = {}

\* the sentinel key that decides a mapping
Winner(m) ==
    IF "$oid" \in DOMAIN m THEN "$oid"
    ELSE IF "$ref" \in DOMAIN m THEN "$ref"
    ELSE IF "$date" \in DOMAIN m THEN "$date"
    ELSE IF "$regex" \in DOMAIN m THEN "$regex"
    ELSE IF "$minKey" \in DOMAIN m THEN "$minKey"
    ELSE IF "$maxKey" \in DOMAIN m THEN "$maxKey"
    ELSE "none"

HasBit(flags, bit) == (flags \div bit) % 2 = 1

\* the values the documentation promises to carry through encode and decode
RoundTrips(v) ==
    \/ v.kind \in {"ObjectId", "DBRef", "MinKey", "MaxKey"}
    \/ v.kind = "datetime" /\ v.tzinfo = utc /\ v.microsecond % 1000 = 0
    \/ v.kind = "SRE_Pattern" /\ v.flags \in {0, IGNORECASE, MULTILINE, IGNORECASE + MULTILINE}

\* C1: object_hook(default(v)) = v for every identifier, reference with or
\* without a database, UTC datetime of whole milliseconds, pattern with only
\* the two flags, MinKey and MaxKey.
C1_RoundTrip ==
    pc = "roundtrip" /\ RoundTrips(value) => decoded = value
C1_Reached ==
    pc = "roundtrip" /\ RoundTrips(value) /\ value.kind = "datetime"

\* the same, short of 2^33 seconds (2242-03-16) from the epoch
RoundTripNear ==
    pc = "roundtrip" /\ RoundTrips(value)
        /\ (value.kind = "datetime" => value.days < 99420 /\ value.days > -99420)
    => decoded = value

\* the fields the branch of a sentinel key reads
BranchFields(w) ==
    CASE w = "$oid" -> {"$oid"}
      [] w = "$ref" -> {"$ref", "$id", "$db"}
      [] w = "$date" -> {"$date"}
      [] w = "$regex" -> {"$regex", "$options"}
      [] w \in {"$minKey", "$maxKey"} -> {}

KindOf(w) ==
    CASE w = "$oid" -> "ObjectId"
      [] w = "$ref" -> "DBRef"
      [] w = "$date" -> "datetime"
      [] w = "$regex" -> "SRE_Pattern"
      [] w = "$minKey" -> "MinKey"
      [] w = "$maxKey" -> "MaxKey"

\* object_hook gives the same result whatever value m holds under the keys K
Ignores(m, K) ==
    \A k \in K \cap DOMAIN m : \A v \in Pool(k) :
        object_hook(Dict([m EXCEPT ![k] = v])) = object_hook(Dict(m))

Restrict(m, K) == [k \in DOMAIN m \cap K |-> m[k]]

\* C2 as stated: the first sentinel key present, in the order $oid, $ref,
\* $date, $regex, $minKey, $maxKey, alone selects the kind of the value
\* returned, and the value under every other key of the mapping (for $minKey
\* and $maxKey the value under the matched key too) does not affect the result.
C2_AsStated ==
    pc = "decoded" /\ Winner(mapping.items) # "none" =>
        LET m == mapping.items
            w == Winner(m)
        IN  /\ ~IsError(decoded) => decoded.kind = KindOf(w)
            /\ Ignores(m, DOMAIN m \ {w})
            /\ w \in {"$minKey", "$maxKey"} => Ignores(m, {w})

\* C2, amended: the first sentinel key present in that order alone selects
\* the kind of the value returned, and the result is that of the mapping cut
\* down to the fields of the winning branch ($ref, $id, $db for $ref; $regex,
\* $options for $regex; the key itself for $oid and $date; none for $minKey
\* and $maxKey): the value under every key outside them does not affect it.
C2_Precedence ==
    pc = "decoded" /\ Winner(mapping.items) # "none" =>
        LET m == mapping.items
            w == Winner(m)
        IN  /\ ~IsError(decoded) => decoded.kind = KindOf(w)
            /\ Ignores(m, DOMAIN m \ BranchFields(w))
            /\ decoded = object_hook(Dict(Restrict(m, BranchFields(w) \cup {w})))

C2_Reached ==
    /\ pc = "decoded"
    /\ {"$oid", "$ref", "$id"} \subseteq DOMAIN mapping.items
    /\ decoded.kind = "ObjectId"

\* C3: a mapping with none of the six sentinel keys comes back as it is,
\* every key and value unchanged.
C3_PassThrough ==
    pc \in {"decoded", "roundtrip"} /\ NoSentinel(mapping.items) => decoded = mapping

C3_Reached ==
    /\ pc = "decoded"
    /\ NoSentinel(mapping.items)
    /\ {"$id", "$options"} \subseteq DOMAIN mapping.items

\* C4: default turns Timestamp(T, I) into exactly {"t": T, "i": I},
\* object_hook hands that mapping back as it is, and object_hook never
\* returns a Timestamp.
C4_Timestamp ==
    /\ pc \in {"encoded", "roundtrip"} /\ value.kind = "Timestamp" =>
            /\ DOMAIN encoded.items = {"t", "i"}
            /\ encoded.items["t"] = value.time
            /\ encoded.items["i"] = value.inc
    /\ pc = "roundtrip" /\ value.kind = "Timestamp" =>
            decoded = encoded /\ decoded.kind = "dict"
    /\ pc \in {"decoded", "roundtrip"} => decoded.kind # "Timestamp"

C4_Reached ==
    pc = "roundtrip" /\ value.kind = "Timestamp" /\ value.time # value.inc

SupportedKinds ==
    {"ObjectId", "DBRef", "datetime", "SRE_Pattern", "MinKey", "MaxKey", "Timestamp"}

\* C5: default returns a mapping exactly for the seven supported types, and
\* for every other value fails with the TypeError that carries the value's
\* repr().
C5_Unsupported ==
    pc = "encoded" =>
        IF value.kind \in SupportedKinds THEN encoded.kind = "dict"
        ELSE encoded = TypeError("is not JSON serializable", <<value>>)

\* the same, tuples left aside
UnsupportedButTuples ==
    pc = "encoded" /\ value.kind # "tuple" =>
        IF value.kind \in SupportedKinds THEN encoded.kind = "dict"
        ELSE encoded = TypeError("is not JSON serializable", <<value>>)

Count(c, chars) == Cardinality({j \in 1..Len(chars) : chars[j] = c})

\* C6: $options holds "i" exactly when IGNORECASE is set and "m" exactly when
\* MULTILINE is set, each at most once, and nothing else: "i", "m", "" for
\* only IGNORECASE, only MULTILINE, neither; every other flag is dropped.
C6_Flags ==
    pc = "encoded" /\ value.kind = "SRE_Pattern" =>
        LET opts == encoded.items["$options"].chars
        IN  /\ Count("i", opts) = (IF HasBit(value.flags, 2) THEN 1 ELSE 0)
            /\ Count("m", opts) = (IF HasBit(value.flags, 8) THEN 1 ELSE 0)
            /\ \A j \in 1..Len(opts) : opts[j] \in {"i", "m"}
            /\ value.flags = 2 => opts = <<"i">>
            /\ value.flags = 8 => opts = <<"m">>
            /\ value.flags = 0 => opts = <<>>

C6_Reached ==
    /\ pc = "encoded" /\ value.kind = "SRE_Pattern"
    /\ HasBit(value.flags, 2) /\ HasBit(value.flags, 16) /\ ~HasBit(value.flags, 8)

\* C7: object_hook fails with KeyError when $ref decides the mapping and $id
\* is missing, or $regex decides it and $options is missing; a missing $db is
\* no error, the DBRef is built with database None.
C7_MissingField ==
    pc = "decoded" =>
        LET m == mapping.items
            w == Winner(m)
        IN  /\ w = "$ref" /\ "$id" \notin DOMAIN m => decoded = KeyError("$id")
            /\ w = "$regex" /\ "$options" \notin DOMAIN m => decoded = KeyError("$options")
            /\ decoded.kind = "KeyError" =>
                    \/ w = "$ref" /\ "$id" \notin DOMAIN m
                    \/ w = "$regex" /\ "$options" \notin DOMAIN m
            /\ w = "$ref" /\ "$id" \in DOMAIN m /\ "$db" \notin DOMAIN m /\ IsString(m["$ref"])
                    => decoded = DBRef(m["$ref"], m["$id"], None)

C7_Reached ==
    /\ pc = "decoded"
    /\ Winner(mapping.items) = "$ref"
    /\ "$id" \notin DOMAIN mapping.items
    /\ "$db" \in DOMAIN mapping.items

\* a $ref mapping whose $id is itself a tagged mapping, decoded to a DBRef
NestedId ==
    /\ pc = "decoded"
    /\ Winner(mapping.items) = "$ref"
    /\ decoded.kind = "DBRef"
    /\ mapping.items["$id"].kind = "dict"
    /\ Winner(mapping.items["$id"].items) # "none"

\* C8 as stated: one call of object_hook on a $ref mapping whose $id is a
\* tagged mapping passes $id through the hook, so that the DBRef carries the
\* decoded value (the ObjectId) as its id.
C8_AsStated ==
    NestedId => decoded.id = object_hook(mapping.items["$id"])

\* C8, amended: one call of object_hook attaches the value under $id as it
\* is, so that for a $id still holding the tagged mapping the DBRef carries
\* that raw mapping; it carries an ObjectId only when the mapping handed in
\* holds one under $id already.
C8_IdAsGiven ==
    pc = "decoded" /\ Winner(mapping.items) = "$ref" /\ decoded.kind = "DBRef" =>
        decoded.id = mapping.items["$id"]

C8_Reached == NestedId /\ decoded.id.kind = "dict"

\* the instant of a datetime: whole seconds since the epoch, UTC
UtcSeconds(v) ==
    LET t == (v.hour * 60 + v.minute) * 60 + v.second
                - (IF v.tzinfo.aware THEN v.tzinfo.minutes * 60 ELSE 0)
    IN  [days |-> v.days + (t \div SecPerDay), secs |-> t % SecPerDay]

\* the same instant on the wall clock of another offset
AtOffset(v, minutes) ==
    LET u == UtcSeconds(v)
        t == u.secs + minutes * 60
        sod == t % SecPerDay
    IN  Datetime(u.days + (t \div SecPerDay), sod \div 3600, (sod % 3600) \div 60,
                 sod % 60, v.microsecond, FixedOffset(minutes))

\* C9: $date is floor(seconds since the epoch of the instant) * 1000 +
\* floor(microsecond / 1000): the offset of an aware value is taken off
\* first, so the same instant under another offset gives the same $date, and
\* the result is the instant rounded down, before the epoch too.
C9_Millis ==
    pc = "encoded" /\ value.kind = "datetime" =>
        LET u == UtcSeconds(value)
            ms == encoded.items["$date"]
        IN  /\ DOMAIN encoded.items = {"$date"}
            /\ ms = [kind |-> "int", hi |-> u.days,
                     lo |-> u.secs * 1000 + (value.microsecond \div 1000)]
            /\ ms.lo \div 1000 = u.secs
            /\ value.microsecond - 1000 * (ms.lo % 1000) \in 0..999
            /\ value.tzinfo.aware =>
                    \A minutes \in Offsets : default(AtOffset(value, minutes)) = encoded

C9_Reached ==
    /\ pc = "encoded" /\ value.kind = "datetime"
    /\ value.tzinfo.aware /\ value.tzinfo.minutes > 0
    /\ value.days = 0 /\ value.hour = 0
    /\ value.microsecond % 1000 # 0
\* the datetimes of a tree
RECURSIVE DatetimesOf(_)
DatetimesOf(t) ==
    IF t.kind = "datetime" THEN {t}
    ELSE IF t.kind = "dict" THEN UNION {DatetimesOf(t.items[k]) : k \in DOMAIN t.items}
    ELSE IF t.kind = "list" THEN UNION {DatetimesOf(t.elems[j]) : j \in 1..Len(t.elems)}
    ELSE {}

\* the object the parser is about to complete stands where doc has a DBRef
\* whose id is an ObjectId
AtRefOfOid ==
    /\ phase = "loading" /\ todo # <<>>
    /\ "$ref" \in DOMAIN SubAt(work, Head(todo)).items
    /\ SubAt(doc, Head(todo)).kind = "DBRef"
    /\ SubAt(doc, Head(todo)).id.kind = "ObjectId"

\* C10: a tree of mappings without sentinel keys, of sequences and of
\* round-trippable values comes back equal from json.dumps with default
\* followed by json.loads with object_hook; when the parser completes the
\* mapping of a DBRef, the mapping of its $id has become the ObjectId already.
C10_Tree ==
    /\ phase = "done" => work = doc
    /\ AtRefOfOid => SubAt(work, Head(todo)).items["$id"].kind = "ObjectId"

\* the same, for trees whose datetimes lie short of 2^33 seconds from the epoch
TreeNear ==
    /\ phase = "done" /\ (\A d \in DatetimesOf(doc) : d.days < 99420 /\ d.days > -99420)
            => work = doc
    /\ AtRefOfOid => SubAt(work, Head(todo)).items["$id"].kind = "ObjectId"

====
